---- MODULE Spec2Model ----
(***************************************************************************)
(* GeoGuess Lite: the round controller, the place selection, the coverage  *)
(* resolver and the guess evaluator of the four playable drafts kept in    *)
(* the repository:                                                         *)
(*   "v3"  src/script.js        lines 125-481 (weighted pool, sync rounds) *)
(*   "pub" src/public/script.js lines 203-420 (coverage checks, async)     *)
(*   "p0"  src/unnamed/part_000 (inline handlers, bounded coverage loop)   *)
(*   "p1"  src/unnamed/part_001 (score-gated difficulty, no coverage)      *)
(* A JavaScript string is a sequence of one-character strings.             *)
(***************************************************************************)
EXTENDS Integers, Sequences, FiniteSets, Bags, TLC

(* ----------------------------- bounds ---------------------------------- *)
\* guesses and give-ups that change the score in one session
MaxRounds == 2
\* round starts (pending timers and awaited lookups) in flight at once
MaxInflight == 2
\* places one round start of public/script.js skips for lack of coverage
MaxSkips == 3
\* Math.random() returns one of 0/(MaxRandom+1) .. MaxRandom/(MaxRandom+1)
MaxRandom == 9

(* ----------------------------- strings --------------------------------- *)
\* String.prototype.toLowerCase on one character; "e^" and "E^" stand for the
\* letter e with an acute accent, small and capital
LowerChar(c) ==
  CASE c = "A" -> "a"
    [] c = "B" -> "b"
    [] c = "E^" -> "e^"
    [] OTHER -> c

ToLowerCase(s) == [i \in 1..Len(s) |-> LowerChar(s[i])]

IsSpace(c) == c = " "

RECURSIVE TrimStart(_)
TrimStart(s) ==
  IF s = <<>> THEN <<>>
  ELSE IF IsSpace(Head(s)) THEN TrimStart(Tail(s)) ELSE s

RECURSIVE TrimEnd(_)
TrimEnd(s) ==
  IF s = <<>> THEN <<>>
  ELSE IF IsSpace(s[Len(s)]) THEN TrimEnd(SubSeq(s, 1, Len(s) - 1)) ELSE s

\* String.prototype.trim
Trim(s) == TrimEnd(TrimStart(s))

\* String.prototype.includes
Includes(g, sub) ==
  \E i \in 0..(Len(g) - Len(sub)) : SubSeq(g, i + 1, i + Len(sub)) = sub

\* .normalize('NFD').replace(/\p{Diacritic}/gu, '') on one character: the
\* accent is split off and removed, the base letter stays
StripChar(c) ==
  CASE c = "e^" -> "e"
    [] c = "E^" -> "E"
    [] OTHER -> c

StripDiacritics(s) == [i \in 1..Len(s) |-> StripChar(s[i])]

\* a string is truthy when it is not empty
Truthy(s) == s # <<>>

\* a || b on strings
OrElse(a, b) == IF Truthy(a) THEN a ELSE b

(* ----------------------------- places ---------------------------------- *)
\* a coordinate of places.json is a token: "N" is NaN, "" is a missing field;
\* a weight is <<>> (absent) or <<w>>, w the weight in tenths
IsFinite(x) == x \notin {"N", ""}

NoWeight == <<>>

RawBad ==
  [id |-> <<>>, name |-> <<"b">>, city |-> <<>>, country |-> <<>>,
   lat |-> "N", lng |-> "1", difficulty |-> "easy", weight |-> NoWeight]

RawA ==
  [id |-> <<"e">>, name |-> <<"a", "b">>, city |-> <<"B">>, country |-> <<>>,
   lat |-> "1", lng |-> "1", difficulty |-> "easy", weight |-> NoWeight]

RawB ==
  [id |-> <<>>, name |-> <<>>, city |-> <<"a">>, country |-> <<"b">>,
   lat |-> "2", lng |-> "2", difficulty |-> "hard", weight |-> <<5>>]

RawList == <<RawBad, RawA, RawB>>

\* the arrays the fetch of places.json may deliver: the empty one, one whose
\* records are all dropped, and catalogs of one and of two places
Datasets == {SubSeq(RawList, 1, n) : n \in 0..Len(RawList)}

\* id: p.id || `${p.name || 'place'}-${p.lat}-${p.lng}`
PlaceId(p) ==
  OrElse(p.id, OrElse(p.name, <<"p", "l", "a", "c", "e">>) \o <<"-", p.lat, "-", p.lng>>)

\* the .map(p => ({...})) of loadPlaces
Normalize(p) ==
  [id |-> PlaceId(p), name |-> p.name, city |-> p.city, country |-> p.country,
   lat |-> p.lat, lng |-> p.lng, difficulty |-> p.difficulty, weight |-> p.weight]

FiniteCoords(p) == IsFinite(p.lat) /\ IsFinite(p.lng)

\* the .filter(...).map(...) of loadPlaces
FilterAndNormalize(data) ==
  LET kept == SelectSeq(data, FiniteCoords)
  IN [i \in 1..Len(kept) |-> Normalize(kept[i])]

NoPlace == [none |-> TRUE]
NoPos == [none |-> TRUE]

(* ----------------------------- state ----------------------------------- *)
VARIABLES
  rev,            \* which draft runs: "v3", "pub", "p0", "p1"
  loaded,         \* "loading", "ok", "failed", "bad" (places holds a non-array)
  PLACES,         \* the catalog
  cover,          \* environment: lat |-> first radius index with imagery, 0 = none
  usedPlaceIds,   \* usedPlaceIds / used / usedPlaces
  currentPlace,   \* currentPlace / current
  panoPosition,   \* position handed to the panorama
  score,
  roundsPlayed,   \* roundsPlayed / rounds (v3 and pub only)
  ui,             \* "initial", "open" (after resetRoundUI), "locked" (after lockRoundUI)
  tasks,          \* bag of the startRound calls awaiting a coverage lookup
  timers,         \* pending setTimeout callbacks
  status,         \* last message given to the presenter
  scored,         \* history: the current place already had its guess or give-up
  shown,          \* history: the places made current since the used set was last cleared
  fetched,        \* history: what the fetch of places.json delivered
  judged,         \* history: the last call of a pure function on its own
  COVERAGE_CACHE, \* public/script.js line 35: panorama positions by place id
  ensured,        \* history: what ensureCoverage last returned, by place id
  ev              \* history: the handler that ran last and what it observed

vars ==
  <<rev, loaded, PLACES, cover, usedPlaceIds, currentPlace, panoPosition, score,
    roundsPlayed, ui, tasks, timers, status, scored, shown, fetched, judged,
    COVERAGE_CACHE, ensured, ev>>

Revs == {"v3", "pub", "p0", "p1"}

Radii == <<50, 150, 300, 600>>
NumRadii == Len(Radii)

\* the session state a handler reads and writes, with the per-step history flags
St ==
  [used |-> usedPlaceIds, cur |-> currentPlace, pos |-> panoPosition,
   score |-> score, rounds |-> roundsPlayed, ui |-> ui, tasks |-> tasks,
   timers |-> timers, status |-> status, scored |-> scored, shown |-> shown,
   threw |-> FALSE, drew |-> FALSE, drawnUsed |-> FALSE, began |-> FALSE,
   repeated |-> FALSE]

Apply(s, op, blank, correct) ==
  /\ usedPlaceIds' = s.used
  /\ currentPlace' = s.cur
  /\ panoPosition' = s.pos
  /\ score' = s.score
  /\ roundsPlayed' = s.rounds
  /\ ui' = s.ui
  /\ tasks' = s.tasks
  /\ timers' = s.timers
  /\ status' = s.status
  /\ scored' = s.scored
  /\ shown' = s.shown
  /\ ev' = [op |-> op, blank |-> blank, correct |-> correct, threw |-> s.threw,
            drew |-> s.drew, drawnUsed |-> s.drawnUsed, began |-> s.began,
            repeated |-> s.repeated]

(* ----------------------------- selection ------------------------------- *)
\* PLACES.filter(p => !used.has(p.id))
Unused(P, used) == SelectSeq(P, LAMBDA p : p.id \notin used)

\* a difficulty is a token; (diff || '').toLowerCase() on the tokens in use
LowerToken(d) ==
  CASE d = "Easy" -> "easy"
    [] d = "Medium" -> "medium"
    [] d = "Hard" -> "hard"
    [] OTHER -> d

\* as DefaultWeightFromDifficulty, but the difficulty is ignored
DefaultWeightAllTwo(diff) == 2

DefaultWeightFromDifficulty(diff) ==
  CASE LowerToken(diff) = "easy" -> 5
    [] LowerToken(diff) = "medium" -> 3
    [] LowerToken(diff) = "hard" -> 1
    [] OTHER -> 2

Max(a, b) == IF a > b THEN a ELSE b

WeightOfUnclamped(p) ==
  IF p.weight # NoWeight THEN p.weight[1] \div 10
  ELSE DefaultWeightFromDifficulty(p.difficulty)

\* Number.isFinite(p.weight) ? Math.max(1, Math.floor(p.weight)) : default
WeightOf(p) ==
  IF p.weight # NoWeight THEN Max(1, p.weight[1] \div 10)
  ELSE DefaultWeightFromDifficulty(p.difficulty)

Repeat(x, n) == [i \in 1..n |-> x]

\* the pool of indexes of script.js, each unused index repeated by its weight;
\* shuffle permutes the pool and so leaves the entries a draw can return
RECURSIVE PoolFrom(_, _, _)
PoolFrom(P, used, idx) ==
  IF idx > Len(P) THEN <<>>
  ELSE (IF ~Truthy(P[idx].id) \/ P[idx].id \in used THEN <<>>
        ELSE Repeat(idx, WeightOf(P[idx]))) \o PoolFrom(P, used, idx + 1)

BuildWeightedPool(P, used) == PoolFrom(P, used, 1)

\* every place pickNextPlace can return; NoPlace is null
PickNextPlace(P, used) ==
  LET pool == BuildWeightedPool(P, used)
  IN IF pool = <<>> THEN {NoPlace} ELSE {P[pool[k]] : k \in 1..Len(pool)}

\* history: a draw returned place p while the used set was s.used
Drawn(s, key) ==
  [s EXCEPT !.drew = TRUE, !.drawnUsed = @ \/ key \in s.used]

(* ----------------------------- presenter ------------------------------- *)
ResetRoundUI(s) == [s EXCEPT !.ui = "open", !.status = "make-guess"]

LockRoundUI(s) == [s EXCEPT !.ui = "locked"]

Nominal(p) == [lat |-> p.lat, lng |-> p.lng, radius |-> 0]

\* the position a successful lookup at radius index ri supplies
LookupPos(p, ri) == [lat |-> p.lat, lng |-> p.lng, radius |-> Radii[ri]]

\* currentPlace = place and the panorama moved to pos
Show(s, place, pos) ==
  [s EXCEPT !.cur = place, !.pos = pos, !.scored = FALSE,
            !.shown = @ \cup {place}, !.repeated = @ \/ place \in s.shown]

(* ----------------------------- coverage resolver ----------------------- *)
\* what the imagery lookup answers for place p at radius index ri: a position
\* ("ok"), an answer without a position ("notfound"), or a rejection ("error")
Outcomes(p, ri) ==
  IF cover[p.lat] # 0 /\ ri >= cover[p.lat] THEN {"ok"} ELSE {"notfound", "error"}

\* a startRound awaiting findPanoramaNear: the place looked up, the radius index
\* of the lookup in flight, the radii asked so far, and (part_000) the candidate
\* list and loop counter of the for loop
NewTask(place, cands, k) ==
  [place |-> place, ri |-> 1, issued |-> <<Radii[1]>>, cands |-> cands, k |-> k]

\* attempt(i + 1): the next lookup, or resolve(null) past the last radius
AttemptNext(t) ==
  IF t.ri + 1 > NumRadii THEN [done |-> TRUE, pos |-> NoPos, t |-> t]
  ELSE [done |-> FALSE, pos |-> NoPos,
        t |-> [t EXCEPT !.ri = @ + 1, !.issued = Append(@, Radii[t.ri + 1])]]

\* public/script.js: a lookup without a position and a rejected lookup both
\* go on to the next radius
PubFindStep(t, o) ==
  IF o = "ok" THEN [done |-> TRUE, pos |-> LookupPos(t.place, t.ri), t |-> t]
  ELSE AttemptNext(t)

\* part_000: .then resolves with pos || null whatever the answer holds; only a
\* rejection goes on to the next radius
P0FindStep(t, o) ==
  IF o = "ok" THEN [done |-> TRUE, pos |-> LookupPos(t.place, t.ri), t |-> t]
  ELSE IF o = "notfound" THEN [done |-> TRUE, pos |-> NoPos, t |-> t]
  ELSE AttemptNext(t)

\* tasks is a bag: two calls may await lookups for the same place
Await(s, t) == [s EXCEPT !.tasks = @ (+) SetToBag({t})]

Answered(s, t) == [s EXCEPT !.tasks = @ (-) SetToBag({t})]

(* ----------------------------- startRound ------------------------------ *)
\* script.js startRound: synchronous; on exhaustion clears the used set and
\* retries from a 600 ms timer
V3StartRound(P, s) ==
  { IF place = NoPlace
    THEN [s EXCEPT !.cur = NoPlace, !.status = "restarting", !.used = {},
                   !.shown = {}, !.timers = @ + 1]
    ELSE ResetRoundUI(Show([Drawn(s, place.id) EXCEPT !.used = @ \cup {place.id}],
                           place, Nominal(place)))
    : place \in PickNextPlace(P, s.used) }

\* the callback of that timer
V3Restart(P, s) ==
  { IF p2 = NoPlace
    THEN [s EXCEPT !.status = "no-valid", !.timers = @ - 1]
    ELSE ResetRoundUI(Show([Drawn(s, p2.id) EXCEPT !.used = @ \cup {p2.id},
                                                   !.timers = @ - 1],
                           p2, Nominal(p2)))
    : p2 \in PickNextPlace(P, s.used) }

\* public/script.js startRound up to its await; k counts the places this
\* round start has skipped for lack of coverage (history)
PubStartFrom(P, s, k) ==
  LET candidates == Unused(P, s.used)
      s1 == IF candidates = <<>>
            THEN [s EXCEPT !.used = {}, !.shown = {}, !.status = "restarting"]
            ELSE s
      pool == Unused(P, s1.used)
  IN IF pool = <<>>
     THEN {[s1 EXCEPT !.status = "no-valid"]}
     ELSE {Await(Drawn(s1, pool[j].id), NewTask(pool[j], <<>>, k))
           : j \in 1..Len(pool)}

PubStartRound(P, s) == PubStartFrom(P, s, 0)

\* as PubResume, but a skipped place counts as a round played
PubResumeCountsSkip(P, s, r) ==
  IF r.pos = NoPos
  THEN PubStartFrom(P, [s EXCEPT !.used = @ \cup {r.t.place.id},
                                 !.rounds = @ + 1,
                                 !.status = "picking-another"], r.t.k + 1)
  ELSE {ResetRoundUI(Show([s EXCEPT !.used = @ \cup {r.t.place.id}],
                          r.t.place, r.pos))}

\* public/script.js startRound after its await
PubResume(P, s, r) ==
  IF r.pos = NoPos
  THEN PubStartFrom(P, [s EXCEPT !.used = @ \cup {r.t.place.id},
                                 !.status = "picking-another"], r.t.k + 1)
  ELSE {ResetRoundUI(Show([s EXCEPT !.used = @ \cup {r.t.place.id}],
                          r.t.place, r.pos))}

\* part_000: one turn of the for loop, up to its await; candidates were
\* filtered once, before the loop
P0Attempt(P, s, cands, k) ==
  IF k >= (IF Len(P) = 0 THEN 1 ELSE Len(P))
  THEN {[s EXCEPT !.status = "no-coverage"]}
  ELSE {Await(Drawn(s, cands[j].id), NewTask(cands[j], cands, k))
        : j \in 1..Len(cands)}

\* part_000 startRound up to its first await
P0StartRound(P, s) ==
  LET s0 == [s EXCEPT !.status = "loading-location"]
      pool == Unused(P, s0.used)
      s1 == IF pool = <<>> THEN [s0 EXCEPT !.used = {}, !.shown = {}] ELSE s0
      candidates == Unused(P, s1.used)
  IN IF candidates = <<>>
     THEN {[s1 EXCEPT !.status = "no-valid"]}
     ELSE P0Attempt(P, s1, candidates, 0)

\* part_000 startRound after an await
P0Resume(P, s, r) ==
  IF r.pos = NoPos
  THEN P0Attempt(P, [s EXCEPT !.used = @ \cup {r.t.place.id}], r.t.cands, r.t.k + 1)
  ELSE {[Show([s EXCEPT !.used = @ \cup {r.t.place.id}], r.t.place, r.pos)
           EXCEPT !.status = "make-guess"]}

LowThreshold == 7
MidThreshold == 15

\* part_001 nextLocation: the pool is gated by the score, used places are
\* keyed by name, and the panorama goes to the nominal coordinate
P1Eligible(P, sc) ==
  IF sc <= LowThreshold THEN SelectSeq(P, LAMBDA p : p.difficulty = "easy")
  ELSE IF sc <= MidThreshold
       THEN SelectSeq(P, LAMBDA p : p.difficulty = "medium" \/ p.difficulty = "easy")
       ELSE SelectSeq(P, LAMBDA p : p.difficulty \in {"easy", "medium", "hard"})

\* (bad: places holds a non-array, and places.filter throws)
P1NextLocation(P, bad, s) ==
  LET difficultyPool ==
        SelectSeq(P1Eligible(P, s.score), LAMBDA p : p.name \notin s.used)
  IN IF bad THEN {[s EXCEPT !.threw = TRUE]}
     ELSE IF difficultyPool = <<>> THEN {[s EXCEPT !.status = "no-more"]}
     ELSE {Show([Drawn(s, difficultyPool[j].name) EXCEPT
                   !.used = @ \cup {difficultyPool[j].name}],
                difficultyPool[j], Nominal(difficultyPool[j]))
           : j \in 1..Len(difficultyPool)}

(* ----------------------------- guess evaluator ------------------------- *)
\* script.js norm
V3Norm(str) == Trim(ToLowerCase(str))

V3IsGuessCorrect(guess, place) ==
  LET g == V3Norm(guess)
      name == V3Norm(place.name)
      city == V3Norm(place.city)
      country == V3Norm(place.country)
  IN IF ~Truthy(g) THEN FALSE
     ELSE \/ Truthy(name) /\ Includes(g, name)
          \/ Truthy(city) /\ Includes(g, city)
          \/ Truthy(country) /\ Includes(g, country)

\* public/script.js lines 344-351
PubIsGuessCorrect(guess, place) ==
  LET g == Trim(ToLowerCase(guess))
  IN \/ Truthy(place.name) /\ Includes(g, ToLowerCase(place.name))
     \/ Truthy(place.city) /\ Includes(g, ToLowerCase(place.city))
     \/ Truthy(place.country) /\ Includes(g, ToLowerCase(place.country))

\* public/script.js lines 96-130: norm, getGuessMode and isGuessCorrect of the
\* draft with difficulty modes
NewNorm(str) == StripDiacritics(Trim(ToLowerCase(str)))

GetGuessMode(val) ==
  IF val = "easy-country" THEN "country"
  ELSE IF val = "hard-place" THEN "place"
  ELSE "city-or-place"

NewIsGuessCorrect(guess, place, mode) ==
  LET g == NewNorm(guess)
      name == NewNorm(place.name)
      city == NewNorm(place.city)
      country == NewNorm(place.country)
  IN IF ~Truthy(g) THEN FALSE
     ELSE CASE mode = "country" -> Truthy(country) /\ Includes(g, country)
            [] mode = "place" ->
                 \/ Truthy(name) /\ Includes(g, name)
                 \/ ~Truthy(name) /\ Truthy(city) /\ Includes(g, city)
            [] OTHER ->
                 \/ Truthy(name) /\ Includes(g, name)
                 \/ Truthy(city) /\ Includes(g, city)
                 \/ Truthy(country) /\ Includes(g, country)

\* part_000
P0IsGuessCorrect(guess, place, mode) ==
  LET g == Trim(ToLowerCase(guess))
      name == ToLowerCase(place.name)
      city == ToLowerCase(place.city)
      country == ToLowerCase(place.country)
  IN IF ~Truthy(g) THEN FALSE
     ELSE IF mode = "easy" THEN Truthy(country) /\ Includes(g, country)
     ELSE \/ Truthy(city) /\ Includes(g, city)
          \/ Truthy(name) /\ Includes(g, name)

\* part_001: equality with the city or the country
P1IsGuessCorrect(text, place) ==
  LET guess == ToLowerCase(Trim(text))
  IN guess = ToLowerCase(place.city) \/ guess = ToLowerCase(place.country)

(* ----------------------------- handlers -------------------------------- *)
SettleWrongUnpunished(s, correct) ==
  LockRoundUI([s EXCEPT !.rounds = @ + 1,
                        !.score = IF correct THEN @ + 1 ELSE @,
                        !.status = IF correct THEN "correct" ELSE "wrong",
                        !.scored = TRUE])

\* roundsPlayed += 1 and score +1 / -1, then lockRoundUI
Settle(s, correct) ==
  LockRoundUI([s EXCEPT !.rounds = @ + 1,
                        !.score = IF correct THEN @ + 1 ELSE @ - 1,
                        !.status = IF correct THEN "correct" ELSE "wrong",
                        !.scored = TRUE])

\* script.js handleGuess
V3Guess(s, text) ==
  IF s.cur = NoPlace THEN s
  ELSE IF ~Truthy(Trim(text)) THEN [s EXCEPT !.status = "warn-empty"]
  ELSE Settle(s, V3IsGuessCorrect(Trim(text), s.cur))

\* public/script.js handleGuess
PubGuess(s, text) ==
  IF s.cur = NoPlace THEN s
  ELSE IF ~Truthy(Trim(text)) THEN [s EXCEPT !.status = "warn-empty"]
  ELSE Settle(s, PubIsGuessCorrect(Trim(text), s.cur))

\* as GiveUpLocked, but a give-up is not counted as a round played
GiveUpUncounted(s) ==
  IF s.cur = NoPlace THEN s
  ELSE LockRoundUI([s EXCEPT !.score = @ - 1,
                             !.status = "gave-up", !.scored = TRUE])

\* handleGiveUp of script.js and of public/script.js
GiveUpLocked(s) ==
  IF s.cur = NoPlace THEN s
  ELSE LockRoundUI([s EXCEPT !.rounds = @ + 1, !.score = @ - 1,
                             !.status = "gave-up", !.scored = TRUE])

\* part_000 submitGuess: no check of the text, no rounds counter, and the
\* next round is started from an 800 ms timer
P0Guess(s, text, mode) ==
  IF s.cur = NoPlace THEN s
  ELSE [s EXCEPT !.score = IF P0IsGuessCorrect(text, s.cur, mode) THEN @ + 1 ELSE @ - 1,
                 !.status = IF P0IsGuessCorrect(text, s.cur, mode)
                            THEN "correct" ELSE "wrong",
                 !.scored = TRUE, !.timers = @ + 1]

\* part_000 giveUp
P0GiveUpStep(s) ==
  IF s.cur = NoPlace THEN s
  ELSE [s EXCEPT !.score = @ - 1, !.status = "gave-up", !.scored = TRUE,
                 !.timers = @ + 1]

\* part_001 submitGuess: reading currentPlace.city of null throws
P1Guess(P, s, text) ==
  IF s.cur = NoPlace THEN {[s EXCEPT !.threw = TRUE]}
  ELSE P1NextLocation(P, loaded = "bad",
                      [s EXCEPT !.score = IF P1IsGuessCorrect(text, s.cur)
                                THEN @ + 1 ELSE @ - 1,
                                !.scored = TRUE, !.began = TRUE])

\* part_001 giveUp: the answer is shown and the next location picked; the
\* score is left alone
P1GiveUpStep(P, s) ==
  IF s.cur = NoPlace THEN {[s EXCEPT !.threw = TRUE]}
  ELSE P1NextLocation(P, loaded = "bad",
                      [s EXCEPT !.status = "gave-up", !.began = TRUE])

(* ----------------------------- the state machine ----------------------- *)
\* what the player may type: nothing, blanks, and texts that do and do not
\* hold a field of the places of RawList
Guesses ==
  {<<>>, <<" ">>, <<"a">>, <<" ", "B">>, <<"A", "b", " ">>, <<"b", "a">>, <<"c">>}

LoadInputs ==
  {[kind |-> "array", data |-> d] : d \in Datasets}
    \cup {[kind |-> "not-array", data |-> <<>>], [kind |-> "unreachable", data |-> <<>>]}

\* nothing fetched yet, no function called on its own yet, an empty Map
NoInput == [kind |-> "none", data |-> <<>>]
NoVerdict == [draft |-> "none"]
NoEntries == [id \in {} |-> NoPos]

Lats == {"1", "2"}
CoverChoices == {0, 1, 3}

\* imagery exists only near places of the catalog
Covers(P) ==
  {c \in [Lats -> CoverChoices] :
     \A l \in Lats : c[l] # 0 => \E i \in 1..Len(P) : P[i].lat = l}

\* the model's bounds on the session
Within(s) ==
  /\ s.score \in -MaxRounds..MaxRounds
  /\ s.rounds <= MaxRounds
  /\ BagCardinality(s.tasks) + s.timers <= MaxInflight

InitRest ==
  /\ loaded = "loading"
  /\ PLACES = <<>>
  /\ usedPlaceIds = {}
  /\ currentPlace = NoPlace
  /\ panoPosition = NoPos
  /\ score = 0
  /\ roundsPlayed = 0
  /\ ui = "initial"
  /\ tasks = EmptyBag
  /\ timers = 0
  /\ status = ""
  /\ scored = FALSE
  /\ shown = {}
  /\ fetched = NoInput
  /\ judged = NoVerdict
  /\ ev = [op |-> "init", blank |-> FALSE, correct |-> FALSE, threw |-> FALSE,
           drew |-> FALSE, drawnUsed |-> FALSE, began |-> FALSE,
           repeated |-> FALSE]
  /\ COVERAGE_CACHE = NoEntries
  /\ ensured = NoEntries

\* the imagery near the places is settled when the catalog is loaded
InitState == cover = [l \in Lats |-> 0] /\ InitRest

Init == rev \in Revs /\ InitState

\* loadPlaces of script.js, public/script.js and part_000: TRUE with the
\* catalog, or FALSE with the error shown
LoadPlaces(in) ==
  IF in.kind # "array" \/ Len(in.data) = 0
  THEN [ok |-> FALSE, places |-> <<>>]
  ELSE [ok |-> TRUE, places |-> FilterAndNormalize(in.data)]

\* startRound of the draft that runs
StartRound(P, s) ==
  CASE rev = "v3" -> V3StartRound(P, [s EXCEPT !.began = TRUE])
    [] rev = "pub" -> PubStartRound(P, [s EXCEPT !.began = TRUE])
    [] rev = "p0" -> P0StartRound(P, [s EXCEPT !.began = TRUE])

\* initMap from the answer of the fetch on: if (!(await loadPlaces())) return;
\* startRound()
Loaded ==
  /\ loaded = "loading"
  /\ \E in \in LoadInputs :
       LET r == LoadPlaces(in)
       IN /\ fetched' = in
          /\ IF r.ok
             THEN /\ loaded' = "ok"
                  /\ PLACES' = r.places
                  /\ cover' \in Covers(r.places)
                  /\ \E s2 \in StartRound(r.places, St) :
                       Within(s2) /\ Apply(s2, "load", FALSE, FALSE)
             ELSE /\ loaded' = "failed"
                  /\ Apply([St EXCEPT !.status = "error-load"], "load", FALSE, FALSE)
                  /\ UNCHANGED <<PLACES, cover>>
  /\ UNCHANGED <<rev, judged, COVERAGE_CACHE, ensured>>

\* initMap of public/script.js and of part_000
InitMap == rev \in {"pub", "p0"} /\ Loaded

\* initMap of script.js, whose text ends after the handlers are wired: it
\* is taken to go on like the other drafts
V3InitMap == rev = "v3" /\ Loaded

\* part_001 loadPlaces: places = await response.json(); nextLocation()
P1LoadPlaces ==
  /\ rev = "p1"
  /\ loaded = "loading"
  /\ \E in \in LoadInputs :
       /\ fetched' = in
       /\ CASE in.kind = "unreachable" ->
                 /\ loaded' = "failed"
                 /\ Apply([St EXCEPT !.threw = TRUE], "load", FALSE, FALSE)
                 /\ UNCHANGED PLACES
            [] in.kind = "not-array" ->
                 /\ loaded' = "bad"
                 /\ \E s2 \in P1NextLocation(<<>>, TRUE, [St EXCEPT !.began = TRUE]) :
                      Apply(s2, "load", FALSE, FALSE)
                 /\ UNCHANGED PLACES
            [] OTHER ->
                 /\ loaded' = "ok"
                 /\ PLACES' = in.data
                 /\ \E s2 \in P1NextLocation(in.data, FALSE, [St EXCEPT !.began = TRUE]) :
                      Within(s2) /\ Apply(s2, "load", FALSE, FALSE)
  /\ UNCHANGED <<rev, cover, judged, COVERAGE_CACHE, ensured>>

GuessEnabled == ui # "locked"
NextEnabled == ui # "open"

V3HandleGuess ==
  /\ rev = "v3" /\ GuessEnabled
  /\ \E text \in Guesses :
       LET s2 == V3Guess(St, text)
       IN Within(s2) /\ Apply(s2, "guess", ~Truthy(Trim(text)),
                             currentPlace # NoPlace /\ V3IsGuessCorrect(text, currentPlace))
  /\ UNCHANGED <<rev, loaded, PLACES, cover, fetched, judged, COVERAGE_CACHE, ensured>>

V3HandleGiveUp ==
  /\ rev = "v3" /\ GuessEnabled
  /\ LET s2 == GiveUpLocked(St) IN Within(s2) /\ Apply(s2, "giveup", FALSE, FALSE)
  /\ UNCHANGED <<rev, loaded, PLACES, cover, fetched, judged, COVERAGE_CACHE, ensured>>

V3HandleNext ==
  /\ rev = "v3" /\ NextEnabled
  /\ \E s2 \in StartRound(PLACES, St) : Within(s2) /\ Apply(s2, "next", FALSE, FALSE)
  /\ UNCHANGED <<rev, loaded, PLACES, cover, fetched, judged, COVERAGE_CACHE, ensured>>

V3RestartTimer ==
  /\ rev = "v3" /\ timers > 0
  /\ \E s2 \in V3Restart(PLACES, St) : Apply(s2, "restart", FALSE, FALSE)
  /\ UNCHANGED <<rev, loaded, PLACES, cover, fetched, judged, COVERAGE_CACHE, ensured>>

PubHandleGuess ==
  /\ rev = "pub" /\ GuessEnabled
  /\ \E text \in Guesses :
       LET s2 == PubGuess(St, text)
       IN Within(s2) /\ Apply(s2, "guess", ~Truthy(Trim(text)),
                             currentPlace # NoPlace /\ PubIsGuessCorrect(text, currentPlace))
  /\ UNCHANGED <<rev, loaded, PLACES, cover, fetched, judged, COVERAGE_CACHE, ensured>>

PubHandleGiveUp ==
  /\ rev = "pub" /\ GuessEnabled
  /\ LET s2 == GiveUpLocked(St) IN Within(s2) /\ Apply(s2, "giveup", FALSE, FALSE)
  /\ UNCHANGED <<rev, loaded, PLACES, cover, fetched, judged, COVERAGE_CACHE, ensured>>

PubHandleNext ==
  /\ rev = "pub" /\ NextEnabled
  /\ \E s2 \in StartRound(PLACES, St) : Within(s2) /\ Apply(s2, "next", FALSE, FALSE)
  /\ UNCHANGED <<rev, loaded, PLACES, cover, fetched, judged, COVERAGE_CACHE, ensured>>

\* the answer to the lookup task i awaits, and what runs on it
PubLookup ==
  /\ rev = "pub"
  /\ \E t \in BagToSet(tasks) : \E o \in Outcomes(t.place, t.ri) :
       LET r == PubFindStep(t, o)
       IN \E s2 \in (IF r.done THEN PubResume(PLACES, Answered(St, t), r)
                     ELSE {Await(Answered(St, t), r.t)}) :
            /\ \A t2 \in BagToSet(s2.tasks) : t2.k <= MaxSkips
            /\ Apply(s2, "lookup", FALSE, FALSE)
  /\ UNCHANGED <<rev, loaded, PLACES, cover, fetched, judged, COVERAGE_CACHE, ensured>>

P0Modes == {"easy", "hard"}

P0SubmitGuess ==
  /\ rev = "p0"
  /\ \E text \in Guesses, mode \in P0Modes :
       LET s2 == P0Guess(St, text, mode)
       IN Within(s2) /\ Apply(s2, "guess", ~Truthy(Trim(text)),
                             currentPlace # NoPlace
                               /\ P0IsGuessCorrect(text, currentPlace, mode))
  /\ UNCHANGED <<rev, loaded, PLACES, cover, fetched, judged, COVERAGE_CACHE, ensured>>

P0GiveUp ==
  /\ rev = "p0"
  /\ LET s2 == P0GiveUpStep(St) IN Within(s2) /\ Apply(s2, "giveup", FALSE, FALSE)
  /\ UNCHANGED <<rev, loaded, PLACES, cover, fetched, judged, COVERAGE_CACHE, ensured>>

\* setTimeout(startRound, 800) fires
P0Timer ==
  /\ rev = "p0" /\ timers > 0
  /\ \E s2 \in StartRound(PLACES, [St EXCEPT !.timers = @ - 1]) :
       Apply(s2, "timer", FALSE, FALSE)
  /\ UNCHANGED <<rev, loaded, PLACES, cover, fetched, judged, COVERAGE_CACHE, ensured>>

P0Lookup ==
  /\ rev = "p0"
  /\ \E t \in BagToSet(tasks) : \E o \in Outcomes(t.place, t.ri) :
       LET r == P0FindStep(t, o)
       IN \E s2 \in (IF r.done THEN P0Resume(PLACES, Answered(St, t), r)
                     ELSE {Await(Answered(St, t), r.t)}) :
            Apply(s2, "lookup", FALSE, FALSE)
  /\ UNCHANGED <<rev, loaded, PLACES, cover, fetched, judged, COVERAGE_CACHE, ensured>>

P1SubmitGuess ==
  /\ rev = "p1"
  /\ \E text \in Guesses : \E s2 \in P1Guess(PLACES, St, text) :
       Within(s2) /\ Apply(s2, "guess", ~Truthy(Trim(text)),
                           currentPlace # NoPlace /\ P1IsGuessCorrect(text, currentPlace))
  /\ UNCHANGED <<rev, loaded, PLACES, cover, fetched, judged, COVERAGE_CACHE, ensured>>

P1GiveUp ==
  /\ rev = "p1"
  /\ \E s2 \in P1GiveUpStep(PLACES, St) : Apply(s2, "giveup", FALSE, FALSE)
  /\ UNCHANGED <<rev, loaded, PLACES, cover, fetched, judged, COVERAGE_CACHE, ensured>>

Next ==
  \/ InitMap
  \/ V3InitMap
  \/ P1LoadPlaces
  \/ V3HandleGuess
  \/ V3HandleGiveUp
  \/ V3HandleNext
  \/ V3RestartTimer
  \/ PubHandleGuess
  \/ PubHandleGiveUp
  \/ PubHandleNext
  \/ PubLookup
  \/ P0SubmitGuess
  \/ P0GiveUp
  \/ P0Timer
  \/ P0Lookup
  \/ P1SubmitGuess
  \/ P1GiveUp

Spec == Init /\ [][Next]_vars

\* script.js and public/script.js alone: the two drafts with a rounds counter
\* and a locked presenter
InitUI == Init /\ rev \in {"v3", "pub"}

NextUI ==
  \/ InitMap
  \/ V3InitMap
  \/ V3HandleGuess
  \/ V3HandleGiveUp
  \/ V3HandleNext
  \/ V3RestartTimer
  \/ PubHandleGuess
  \/ PubHandleGiveUp
  \/ PubHandleNext
  \/ PubLookup

SpecUI == InitUI /\ [][NextUI]_vars

\* part_000 alone
InitP0 == Init /\ rev = "p0"

NextP0 ==
  \/ InitMap
  \/ P0SubmitGuess
  \/ P0GiveUp
  \/ P0Timer
  \/ P0Lookup

SpecP0 == InitP0 /\ [][NextP0]_vars

\* public/script.js and part_000: the two drafts that skip uncovered places
InitCov == Init /\ rev \in {"pub", "p0"}

NextCov ==
  \/ InitMap
  \/ PubHandleGuess
  \/ PubHandleGiveUp
  \/ PubHandleNext
  \/ PubLookup
  \/ P0SubmitGuess
  \/ P0GiveUp
  \/ P0Timer
  \/ P0Lookup

SpecCov == InitCov /\ [][NextCov]_vars

\* part_000 with every awaited lookup answering and every timer firing
SpecP0Fair == SpecP0 /\ WF_vars(P0Lookup) /\ WF_vars(P0Timer)

\* part_001 alone
InitP1 == Init /\ rev = "p1"

NextP1 ==
  \/ P1LoadPlaces
  \/ P1SubmitGuess
  \/ P1GiveUp

SpecP1 == InitP1 /\ [][NextP1]_vars

\* script.js and part_001: the two drafts whose selection step can return none
InitSel == Init /\ rev \in {"v3", "p1"}

NextSel ==
  \/ V3InitMap
  \/ V3HandleGuess
  \/ V3HandleGiveUp
  \/ V3HandleNext
  \/ V3RestartTimer
  \/ P1LoadPlaces
  \/ P1SubmitGuess
  \/ P1GiveUp

SpecSel == InitSel /\ [][NextSel]_vars

(* ----------------------------- the evaluators on their own ------------- *)
\* the five isGuessCorrect of the repository called directly; "new" is the
\* draft of public/script.js lines 18-200, which has the evaluator with modes
EvalRevs == Revs \cup {"new"}

PlaceAccent ==
  [id |-> <<"x">>, name |-> <<"E^">>, city |-> <<"a", "b">>, country |-> <<"b">>,
   lat |-> "1", lng |-> "2", difficulty |-> "medium", weight |-> NoWeight]

EvalPlaces == {Normalize(RawA), Normalize(RawB), PlaceAccent}

EvalGuesses == Guesses \cup {<<"e">>, <<"E^", " ">>, <<"a", "b", " ", "b">>}

\* the values of #difficultySelect (new draft) and of #mode (part_000)
SelectValues(d) ==
  CASE d = "new" -> {"", "easy-country", "medium-city", "hard-place"}
    [] d = "p0" -> P0Modes
    [] OTHER -> {""}

ModeOf(d, val) ==
  CASE d = "new" -> GetGuessMode(val)
    [] d = "p0" -> val
    [] OTHER -> "none"

Verdict(d, guess, place, val) ==
  CASE d = "new" -> NewIsGuessCorrect(guess, place, GetGuessMode(val))
    [] d = "v3" -> V3IsGuessCorrect(guess, place)
    [] d = "pub" -> PubIsGuessCorrect(guess, place)
    [] d = "p0" -> P0IsGuessCorrect(guess, place, val)
    [] d = "p1" -> P1IsGuessCorrect(guess, place)

Evaluate ==
  /\ \E guess \in EvalGuesses, place \in EvalPlaces, val \in SelectValues(rev) :
       judged' = [draft |-> rev, guess |-> guess, place |-> place,
                  mode |-> ModeOf(rev, val),
                  verdict |-> Verdict(rev, guess, place, val)]
  /\ UNCHANGED <<rev, loaded, PLACES, cover, usedPlaceIds, currentPlace,
                 panoPosition, score, roundsPlayed, ui, tasks, timers, status,
                 scored, shown, fetched, COVERAGE_CACHE, ensured, ev>>

InitEval == rev \in EvalRevs /\ InitState

SpecEval == InitEval /\ [][Evaluate]_vars

(* ----------------------------- the weighted pool on its own ------------ *)
\* script.js lines 168-214 and public/script.js lines 87-94 and 141-153
PoolRevs == {"v3", "new"}

\* weights are in tenths: 0, -1.5, 0.5, 2.5, 3 and no weight at all
PoolWeights == {NoWeight, <<0>>, <<-15>>, <<5>>, <<25>>, <<30>>}

PoolDifficulties == {"easy", "Medium", "hard", ""}

PoolPlace(d, w) == [Normalize(RawA) EXCEPT !.difficulty = d, !.weight = w]

\* catalogs as loadPlaces leaves them: no place, one place, two places
PoolCatalogs ==
  {<<>>} \cup {<<PoolPlace(d, w)>> : d \in PoolDifficulties, w \in PoolWeights}
         \cup {<<PoolPlace(d, w), Normalize(RawB)>>
                : d \in PoolDifficulties, w \in PoolWeights}

PoolUsed == SUBSET {Normalize(RawA).id, Normalize(RawB).id}

Randoms == 0..MaxRandom

\* Math.floor(Math.random() * pool.length), a 0-based index
PickRandomIndex(pool, r) == (r * Len(pool)) \div (MaxRandom + 1)

NoIndex == [none |-> TRUE]

\* buildWeightedPool and the draw of an index into it; pickNextPlace of
\* script.js returns before the draw when the pool is empty
BuildAndPick ==
  /\ \E P \in PoolCatalogs, used \in PoolUsed, r \in Randoms :
       LET pool == BuildWeightedPool(P, used)
       IN judged' = [draft |-> rev, places |-> P, used |-> used, pool |-> pool,
                     index |-> IF rev = "v3" /\ pool = <<>> THEN NoIndex
                               ELSE PickRandomIndex(pool, r)]
  /\ UNCHANGED <<rev, loaded, PLACES, cover, usedPlaceIds, currentPlace,
                 panoPosition, score, roundsPlayed, ui, tasks, timers, status,
                 scored, shown, fetched, COVERAGE_CACHE, ensured, ev>>

InitPool == rev \in PoolRevs /\ InitState

SpecPool == InitPool /\ [][BuildAndPick]_vars

(* ----------------------------- the score gate on its own --------------- *)
\* part_001 lines 28-45: the records of places.json as they are, one of each
\* difficulty and one without a difficulty
GateList ==
  <<[RawA EXCEPT !.name = <<"a">>, !.difficulty = "easy"],
    [RawA EXCEPT !.name = <<"b">>, !.difficulty = "medium"],
    [RawA EXCEPT !.name = <<"c">>, !.difficulty = "hard"],
    [RawA EXCEPT !.name = <<"d">>, !.difficulty = ""]>>

GateCatalogs ==
  {SelectSeq(GateList, LAMBDA p : p.name \in keep)
   : keep \in SUBSET {GateList[i].name : i \in 1..Len(GateList)}}

GateUsed == SUBSET {GateList[i].name : i \in 1..Len(GateList)}

\* scores at, below and above the two thresholds
GateScores ==
  {0, LowThreshold, LowThreshold + 1, MidThreshold, MidThreshold + 1,
   MidThreshold + 5}

\* nextLocation up to its draw: the places it can make current
GatePool ==
  /\ \E P \in GateCatalogs, used \in GateUsed, sc \in GateScores :
       judged' = [draft |-> rev, places |-> P, used |-> used, score |-> sc,
                  pool |-> SelectSeq(P1Eligible(P, sc),
                                     LAMBDA p : p.name \notin used)]
  /\ UNCHANGED <<rev, loaded, PLACES, cover, usedPlaceIds, currentPlace,
                 panoPosition, score, roundsPlayed, ui, tasks, timers, status,
                 scored, shown, fetched, COVERAGE_CACHE, ensured, ev>>

InitGate == rev = "p1" /\ InitState

SpecGate == InitGate /\ [][GatePool]_vars

(* ----------------------------- ensureCoverage on its own --------------- *)
\* public/script.js lines 158-185, the draft with the coverage cache: its
\* callers are not in the text, so ensureCoverage is called for any place
NewPlaces == {Normalize(RawA), Normalize(RawB)}

\* Map.prototype.set
MapSet(map, key, value) ==
  [x \in DOMAIN map \cup {key} |-> IF x = key THEN value ELSE map[x]]

\* ensureCoverage up to its await: a cached position is returned at once
NewEnsureCoverage ==
  /\ rev = "new"
  /\ \E place \in NewPlaces :
       IF place.id \in DOMAIN COVERAGE_CACHE
       THEN /\ ensured' = MapSet(ensured, place.id, COVERAGE_CACHE[place.id])
            /\ Apply(St, "ensure", FALSE, FALSE)
       ELSE /\ BagCardinality(tasks) < MaxInflight
            /\ ensured' = ensured
            /\ Apply(Await(St, NewTask(place, <<>>, 0)), "ensure", FALSE, FALSE)
  /\ UNCHANGED <<rev, loaded, PLACES, cover, fetched, judged, COVERAGE_CACHE>>

\* a lookup of findPanoramaNear (lines 158-176) answers; when the resolution
\* ends, ensureCoverage caches a position (line 183) and returns
NewLookup ==
  /\ rev = "new"
  /\ \E t \in BagToSet(tasks) : \E o \in Outcomes(t.place, t.ri) :
       LET r == PubFindStep(t, o)
       IN IF r.done
          THEN /\ COVERAGE_CACHE' = IF r.pos # NoPos
                                    THEN MapSet(COVERAGE_CACHE, t.place.id, r.pos)
                                    ELSE COVERAGE_CACHE
               /\ ensured' = MapSet(ensured, t.place.id, r.pos)
               /\ Apply(Answered(St, t), "lookup", FALSE, FALSE)
          ELSE /\ UNCHANGED <<COVERAGE_CACHE, ensured>>
               /\ Apply(Await(Answered(St, t), r.t), "lookup", FALSE, FALSE)
  /\ UNCHANGED <<rev, loaded, PLACES, cover, fetched, judged>>

InitNew == rev = "new" /\ cover \in [Lats -> CoverChoices] /\ InitRest

NextNew ==
  \/ NewEnsureCoverage
  \/ NewLookup

SpecNew == InitNew /\ [][NextNew]_vars

(* ----------------------------- claims ---------------------------------- *)
\* the task a lookup step answered: one copy fewer awaits afterwards
AnsweredIn(t) == CopiesIn(t, tasks') < CopiesIn(t, tasks)

\* the resolver went on to the next radius for the task it answered
Advanced(t) ==
  /\ t.ri < NumRadii
  /\ CopiesIn(AttemptNext(t).t, tasks') > CopiesIn(AttemptNext(t).t, tasks)

\* the lookup task t awaited failed: no imagery within its radius
LookupFailed(t) == cover[t.place.lat] = 0 \/ t.ri < cover[t.place.lat]

\* every place of the catalog is in the used set (part_001 keys by name)
AllUsed ==
  /\ PLACES # <<>>
  /\ \A i \in 1..Len(PLACES) :
       (IF rev = "p1" THEN PLACES[i].name ELSE PLACES[i].id) \in usedPlaceIds

\* C1: in script.js, public/script.js and part_000 no draw of the selection
\* step returns a place whose id is in the used set when it is drawn.
C1_NeverDrawsUsed == rev \in {"v3", "pub", "p0"} => ~ev.drawnUsed

\* C2: in script.js and public/script.js a non-empty guess with a place
\* current adds 1 to roundsPlayed and adds 1 to score when the evaluator
\* judges it correct and subtracts 1 otherwise, and a give-up adds 1 to
\* roundsPlayed and subtracts 1 from score: from 0/0 a correct guess and a
\* later give-up end at score 0, rounds 2.
C2_GuessScoresByVerdict ==
  [][/\ (ev'.op = "guess" /\ ~ev'.blank /\ currentPlace # NoPlace)
        => /\ roundsPlayed' = roundsPlayed + 1
           /\ score' = score + (IF ev'.correct THEN 1 ELSE -1)
     /\ (ev'.op = "giveup" /\ currentPlace # NoPlace)
        => /\ roundsPlayed' = roundsPlayed + 1
           /\ score' = score - 1]_vars

C2_CorrectThenGaveUp ==
  ev.op = "giveup" /\ roundsPlayed = 2 /\ score = 0 /\ scored

\* C3: in script.js, part_000 and part_001 a give-up with a place current
\* adds 1 to roundsPlayed and subtracts 1 from score.
C3_GiveUpCostsOne ==
  [][(rev \in {"v3", "p0", "p1"} /\ ev'.op = "giveup" /\ currentPlace # NoPlace)
       => roundsPlayed' = roundsPlayed + 1 /\ score' = score - 1]_vars

\* C4: in script.js, part_000 and part_001 a guess or a give-up with no
\* current place changes nothing and raises no error.
C4_NoPlaceNoOp ==
  [][(rev \in {"v3", "p0", "p1"} /\ ev'.op \in {"guess", "giveup"}
        /\ currentPlace = NoPlace)
       => /\ UNCHANGED <<score, roundsPlayed, usedPlaceIds, currentPlace>>
          /\ ~ev'.threw]_vars

\* C5: in script.js, public/script.js and part_000 a guess that is empty or
\* blank, with a place current, changes no state and starts or schedules no
\* round.
C5_BlankGuessNoOp ==
  [][(rev \in {"v3", "pub", "p0"} /\ ev'.op = "guess" /\ ev'.blank
        /\ currentPlace # NoPlace)
       => UNCHANGED <<score, roundsPlayed, usedPlaceIds, currentPlace, tasks, timers>>]_vars

\* C6: in script.js, public/script.js and part_000 score and roundsPlayed
\* change only for a current place that had no guess or give-up yet, and
\* never while a round start awaits a lookup or a timer is pending.
C6_ScoreOnlyOncePerActiveRound ==
  [][(rev \in {"v3", "pub", "p0"} /\ (score' # score \/ roundsPlayed' # roundsPlayed))
       => /\ currentPlace # NoPlace
          /\ ~scored
          /\ tasks = EmptyBag
          /\ timers = 0]_vars

\* C7: in script.js, public/script.js and part_000 no startRound begins
\* while another awaits a coverage lookup or has its restart timer pending.
C7_RoundsNeverOverlap ==
  [][(rev \in {"v3", "pub", "p0"} /\ ev'.began)
       => /\ tasks = EmptyBag
          /\ rev = "v3" => timers = 0]_vars

\* C8: in public/script.js and part_000 a resolution for a place with
\* imagery ends only with the lookup at the first radius that has it, after
\* one lookup for each radius up to that one, in list order, and the place is
\* shown at the position that lookup supplied.
C8_StopsAtFirstSuccess ==
  [][(rev \in {"pub", "p0"} /\ ev'.op = "lookup")
       => \A t \in BagToSet(tasks) :
            (AnsweredIn(t) /\ ~Advanced(t) /\ cover[t.place.lat] # 0)
              => /\ t.ri = cover[t.place.lat]
                 /\ t.issued = SubSeq(Radii, 1, cover[t.place.lat])
                 /\ currentPlace' = t.place
                 /\ panoPosition' = LookupPos(t.place, cover[t.place.lat])]_vars

\* C9: in public/script.js and part_000 a failed lookup at a radius that is
\* not the last is followed by a lookup at the next radius.
C9_FailureAdvancesRadius ==
  [][(rev \in {"pub", "p0"} /\ ev'.op = "lookup")
       => \A t \in BagToSet(tasks) :
            (AnsweredIn(t) /\ LookupFailed(t) /\ t.ri < NumRadii) => Advanced(t)]_vars

\* C10: in script.js, public/script.js and part_001 a round start that finds
\* every place of the catalog used clears the used set and the retried
\* selection returns a place; in script.js the retry is the timer callback.
C10_ExhaustionResetsAndSelects ==
  [][/\ (rev \in {"pub", "p1"} /\ ev'.began /\ AllUsed)
        => ev'.drew /\ ~ev'.drawnUsed
     /\ (rev = "v3" /\ ev'.began /\ AllUsed)
        => usedPlaceIds' = {} /\ timers' = timers + 1
     /\ (rev = "v3" /\ ev'.op = "restart" /\ PLACES # <<>>)
        => ev'.drew /\ currentPlace' # NoPlace]_vars

\* no place of the catalog has imagery at any radius
NoneCovered == \A i \in 1..Len(PLACES) : cover[PLACES[i].lat] = 0

\* the presenter shows one of the two terminal messages
Unplayable == status \in {"no-valid", "no-coverage"}

\* C11: in script.js and part_000 the messages 'No valid places available'
\* and 'No Street View coverage for remaining locations' are shown only when
\* no place of the catalog has coverage.
C11_UnplayableOnlyWithoutCoverage ==
  (rev \in {"v3", "p0"} /\ Unplayable) => NoneCovered

\* C12: in public/script.js and part_000, when no place of the catalog has
\* coverage, a round start makes at most Len(PLACES) coverage resolutions, and
\* the failure of the last of them ends it with a terminal message.
C12_SkipsCappedAtCatalogSize ==
  [][(rev \in {"pub", "p0"} /\ NoneCovered)
       => /\ \A t \in BagToSet(tasks') : t.k + 1 <= Len(PLACES')
          /\ \A t \in BagToSet(tasks) :
               (ev'.op = "lookup" /\ AnsweredIn(t) /\ ~Advanced(t)
                  /\ t.k + 1 = Len(PLACES))
                 => status' \in {"no-valid", "no-coverage"}]_vars

\* C13: in script.js and public/script.js no place becomes the current place
\* twice between two clears of the used set, nor twice before the first.
C13_NoRepeatBeforeClear ==
  [][(rev \in {"v3", "pub"}) => ~ev'.repeated]_vars

\* the normalization of a guess and of a place field: lower case, trimmed,
\* accents removed
Normalized(str) == StripDiacritics(Trim(ToLowerCase(str)))

\* the normalized guess holds the normalized field, which is not empty
Holds(guess, field) ==
  Truthy(Normalized(field)) /\ Includes(Normalized(guess), Normalized(field))

\* C14: the evaluator of script.js and the combined mode of the evaluator of
\* public/script.js lines 112-130 judge a guess correct exactly when its
\* normalization is not empty and holds the normalized name, city or country
\* of the place; an empty normalized guess is incorrect in every mode.
C14_CombinedModeIsContainment ==
  (judged.draft \in {"new", "v3"})
    => /\ judged.mode \in {"city-or-place", "none"}
          => judged.verdict =
               (/\ Truthy(Normalized(judged.guess))
                /\ \/ Holds(judged.guess, judged.place.name)
                   \/ Holds(judged.guess, judged.place.city)
                   \/ Holds(judged.guess, judged.place.country))
       /\ ~Truthy(Normalized(judged.guess)) => ~judged.verdict

\* C15: in the country mode (public/script.js 'country', part_000 'easy') a
\* guess is judged correct only if it holds the country; in the place mode
\* (public/script.js 'place', part_000 'hard') only if it holds the name, or
\* holds the city while the name is empty.
C15_ModeDecidesFields ==
  /\ (judged.draft \in {"new", "p0"} /\ judged.mode \in {"country", "easy"}
        /\ judged.verdict)
       => Holds(judged.guess, judged.place.country)
  /\ (judged.draft \in {"new", "p0"} /\ judged.mode \in {"place", "hard"}
        /\ judged.verdict)
       => \/ Holds(judged.guess, judged.place.name)
          \/ /\ ~Truthy(Normalized(judged.place.name))
             /\ Holds(judged.guess, judged.place.city)

\* the load must fail on what the fetch delivered: nothing, a non-array, an
\* empty array, or records that all lack a finite lat or lng
LoadMustFail(in) ==
  \/ in.kind \in {"unreachable", "not-array"}
  \/ SelectSeq(in.data, FiniteCoords) = <<>>

\* C16: in script.js and part_000 a load whose source is unreachable, is not
\* an array, is empty, or has no record with finite lat and lng reports
\* failure with an error message, and no round is started.
C16_LoadFailsOnUnusableSource ==
  [][(rev \in {"v3", "p0"} /\ ev'.op = "load" /\ LoadMustFail(fetched'))
       => /\ loaded' = "failed"
          /\ status' = "error-load"
          /\ ~ev'.began]_vars

\* C17: in script.js, public/script.js and part_001 the catalog after a load
\* is the records of the fetched array with finite lat and lng, in order,
\* each with its id synthesized when absent.
C17_CatalogIsFiniteRecords ==
  (rev \in {"v3", "pub", "p1"} /\ loaded = "ok")
    => PLACES = FilterAndNormalize(fetched.data)

\* C18: in public/script.js and part_000, once the load has failed it stays
\* failed, no round start runs, no place becomes current and the one error
\* message stays, whatever the player does.
C18_FailedLoadIsTerminal ==
  [][(rev \in {"pub", "p0"} /\ loaded = "failed")
       => /\ loaded' = "failed"
          /\ ~ev'.began
          /\ currentPlace' = NoPlace
          /\ status' = "error-load"]_vars

\* C19: the selection step of script.js returns none exactly when no place
\* of the catalog is unused, and the one of part_001 exactly when no place
\* that passes its difficulty filter is unused.
C19_NoneIffNothingEligible ==
  [][/\ (rev = "v3" /\ (ev'.began \/ ev'.op = "restart"))
        => (ev'.drew <=> Unused(PLACES', usedPlaceIds) # <<>>)
     /\ (rev = "p1" /\ ev'.began /\ ~ev'.threw)
        => (ev'.drew <=>
              \E i \in 1..Len(P1Eligible(PLACES', score')) :
                 P1Eligible(PLACES', score')[i].name \notin usedPlaceIds)]_vars

C19_ExhaustedReturnsNone ==
  /\ rev = "v3" /\ ev.op = "next" /\ ev.began /\ ~ev.drew
  /\ PLACES # <<>> /\ status = "restarting"

\* C20: in script.js, public/script.js and part_000 the current place has
\* imagery, and the panorama stands at the position a lookup for that place
\* supplied, never at the nominal coordinate.
C20_CurrentPlaceWasResolved ==
  (rev \in {"v3", "pub", "p0"} /\ currentPlace # NoPlace)
    => /\ cover[currentPlace.lat] # 0
       /\ \E ri \in cover[currentPlace.lat]..NumRadii :
            panoPosition = LookupPos(currentPlace, ri)

\* the step started a coverage resolution for place p
ResolutionStarted(p) ==
  \E t \in BagToSet(tasks') :
     t.place = p /\ t.ri = 1 /\ CopiesIn(t, tasks') > CopiesIn(t, tasks)

\* C21: in public/script.js and part_000 a place whose coverage lookup is
\* awaited is already in the used set, and the step in which the resolution
\* for a place returns none starts no new resolution for that place.
C21_UsedOnSelection ==
  [][(rev \in {"pub", "p0"})
       => /\ \A t \in BagToSet(tasks') : t.place.id \in usedPlaceIds'
          /\ \A t \in BagToSet(tasks) :
               (ev'.op = "lookup" /\ AnsweredIn(t) /\ ~Advanced(t)
                  /\ currentPlace' # t.place)
                 => ~ResolutionStarted(t.place)]_vars

\* C22: once ensureCoverage has returned for a place id, with a position or
\* with none, no later call for that id starts a resolution, and every later
\* call returns the same result.
C22_CoverageCachedPerId ==
  [][(rev = "new")
       => \A p \in NewPlaces :
            p.id \in DOMAIN ensured
              => /\ ~ResolutionStarted(p)
                 /\ p.id \in DOMAIN ensured'
                 /\ ensured'[p.id] = ensured[p.id]]_vars

\* C23: in public/script.js and part_000 a step in which a coverage lookup
\* answers, and so every step that skips a place for lack of coverage, leaves
\* score and roundsPlayed as they were.
C23_SkipKeepsScore ==
  [][(rev \in {"pub", "p0"} /\ ev'.op = "lookup")
       => (score' = score /\ roundsPlayed' = roundsPlayed)]_vars

\* a place was just skipped in a game that already has a score
C23_SkippedMidGame ==
  /\ rev = "pub" /\ ev.op = "lookup"
  /\ roundsPlayed >= 1 /\ score # 0
  /\ \E t \in BagToSet(tasks) : t.k >= 1 /\ t.ri = 1

\* the weight the pool is to give a place: an explicit weight (in tenths)
\* floored and raised to 1, else 5, 3, 1 by difficulty and 2 without one
ExpectedWeight(p) ==
  IF p.weight # NoWeight
  THEN LET fl == CHOOSE n \in -10..10 :
                   10 * n <= p.weight[1] /\ p.weight[1] < 10 * (n + 1)
       IN IF fl < 1 THEN 1 ELSE fl
  ELSE CASE p.difficulty \in {"easy", "Easy"} -> 5
         [] p.difficulty \in {"medium", "Medium"} -> 3
         [] p.difficulty \in {"hard", "Hard"} -> 1
         [] OTHER -> 2

Occurrences(seq, x) == Cardinality({k \in 1..Len(seq) : seq[k] = x})

\* C24: in script.js and the weighted draft of public/script.js the pool holds
\* the index of every unused place exactly weight(P) times and of no used
\* place, and the draw from a pool that has entries indexes inside it.
C24_PoolHoldsWeights ==
  (judged.draft # "none")
    => /\ \A i \in 1..Len(judged.places) :
            Occurrences(judged.pool, i) =
              IF judged.places[i].id \in judged.used THEN 0
              ELSE ExpectedWeight(judged.places[i])
       /\ \A k \in 1..Len(judged.pool) : judged.pool[k] \in 1..Len(judged.places)
       /\ judged.pool # <<>> => judged.index \in 0..(Len(judged.pool) - 1)

\* a place of weight -1.5 is in the pool once beside a used place that is not,
\* and the draw indexes that one entry
C24_NegativeWeightOnce ==
  /\ judged.draft # "none"
  /\ Len(judged.places) = 2
  /\ judged.places[1].weight = <<-15>>
  /\ judged.used = {judged.places[2].id}
  /\ judged.pool = <<1>>
  /\ judged.index = 0

\* C25: in part_001 the places nextLocation can select are easy when the
\* score is at most 7, easy or medium when it is at most 15, and above 15
\* every unused place can be selected, one without a difficulty included.
C25_GateByScore ==
  (judged.draft # "none")
    => /\ judged.score <= LowThreshold
            => \A k \in 1..Len(judged.pool) : judged.pool[k].difficulty = "easy"
       /\ judged.score <= MidThreshold
            => \A k \in 1..Len(judged.pool) :
                 judged.pool[k].difficulty \in {"easy", "medium"}
       /\ judged.score > MidThreshold
            => \A i \in 1..Len(judged.places) :
                 judged.places[i].name \notin judged.used
                   => \E k \in 1..Len(judged.pool) :
                        judged.pool[k] = judged.places[i]

\* C26: in public/script.js and part_000 a resolution for a place with no
\* imagery within any radius ends, with none, only after one lookup at each
\* of the four radii in list order.
C26_NoneAfterFourLookups ==
  [][(rev \in {"pub", "p0", "new"} /\ ev'.op = "lookup")
       => \A t \in BagToSet(tasks) :
            (AnsweredIn(t) /\ ~Advanced(t) /\ cover[t.place.lat] = 0)
              => (t.ri = NumRadii /\ t.issued = Radii)]_vars

\* C27: in script.js and public/script.js the score is never further from 0
\* than roundsPlayed, and the two have the same parity.
C27_ScoreWithinRounds ==
  (rev \in {"v3", "pub"})
    => /\ score <= roundsPlayed
       /\ 0 - score <= roundsPlayed
       /\ (roundsPlayed + score) % 2 = 0

\* two rounds played and both lost, the second by a give-up
C27_TwoRoundsLost ==
  rev \in {"v3", "pub"} /\ ev.op = "giveup" /\ roundsPlayed = 2 /\ score = 0 - 2

\* C28: in script.js, public/script.js and part_000 the id of the current
\* place, when there is one, is in the used set.
C28_CurrentIsUsed ==
  (rev \in {"v3", "pub", "p0"} /\ currentPlace # NoPlace)
    => currentPlace.id \in usedPlaceIds

\* a covered place is current and no guess on it has been scored yet
Playable ==
  currentPlace # NoPlace /\ cover[currentPlace.lat] # 0 /\ ~scored

\* C29: in script.js, public/script.js and part_000, when the catalog holds a
\* place with coverage, every round start is followed by a state in which a
\* covered place is current and waits for its guess.
C29_RoundStartLeadsToPlay ==
  (rev \in {"v3", "pub", "p0"} /\ ev.began /\ ~NoneCovered) ~> Playable

====
